---- MODULE Spec2Model ----
(***************************************************************************)
(* docs/conf.py: the Sphinx build configuration of the Solang             *)
(* documentation.  The module body is executed top to bottom by the       *)
(* documentation generator; two of its statements start `git describe`    *)
(* as an external process and read the first line of its output.  The     *)
(* generator later calls the module's setup(sphinx) hook.                 *)
(*                                                                         *)
(* Text that the program converts (the process output, readline, strip)   *)
(* is a sequence of one-character strings; the other configuration values *)
(* are the literals of the source.                                        *)
(***************************************************************************)
EXTENDS Integers, Sequences, FiniteSets, TLC

\* ------------------------------------------------------------------ bounds

\* Commits of the (linear) history of the repository, 1 the oldest.
MaxCommits == 2
\* Tags another process creates or deletes while the model runs.
MaxTagChanges == 1
\* Configuration loads (build invocations) in one run.
MaxLoads == 2
\* Calls of the setup hook the generator makes after one load.
MaxSetupCalls == 2

Commits == 1..MaxCommits

\* --------------------------------------------------------------- the text

NL == "\n"
Whitespace == {" ", "\t", NL}

V1 == <<"v", "1">>
V2 == <<"v", "2">>
\* Tag names: git's check-ref-format admits no space and no control
\* character in a reference name.
TagNames == {V1, V2}
NoTag == <<>>

Digit(n) == CASE n = 0 -> "0" [] n = 1 -> "1" [] n = 2 -> "2" [] n = 3 -> "3"
              [] n = 4 -> "4" [] n = 5 -> "5" [] n = 6 -> "6" [] n = 7 -> "7"
              [] n = 8 -> "8" [] OTHER -> "9"

\* The abbreviated object name of commit c, as `git describe` prints it.
Hash(c) == <<"c", Digit(c)>>

\* ------------------------------------------------------------ the program

\* The statements of conf.py in execution order; the two assignments that
\* shell out are a spawn (os.popen) followed by a blocking read
\* (.readline().strip() and the assignment).
ProgramEagerPopen ==
    << "import_os", "import_lexers", "def_setup",
       "project", "copyright", "author",
       "version_popen", "release_popen", "version_read", "release_read",
       "extensions", "sphinx_tabs_disable_tab_closing", "templates_path",
       "exclude_patterns", "html_theme", "master_doc" >>

ProgramLateImport ==
    << "import_os", "def_setup",
       "project", "copyright", "author",
       "version_popen", "version_read", "release_popen", "release_read",
       "extensions", "sphinx_tabs_disable_tab_closing", "templates_path",
       "exclude_patterns", "html_theme", "master_doc", "import_lexers" >>

Program ==
    << "import_os", "import_lexers", "def_setup",
       "project", "copyright", "author",
       "version_popen", "version_read", "release_popen", "release_read",
       "extensions", "sphinx_tabs_disable_tab_closing", "templates_path",
       "exclude_patterns", "html_theme", "master_doc" >>

Done == Len(Program) + 1

\* The configuration keys the generator reads by name.
ConfigKeys ==
    { "project", "copyright", "author", "version", "release", "extensions",
      "sphinx_tabs_disable_tab_closing", "templates_path", "exclude_patterns",
      "html_theme", "master_doc" }

\* The keys assigned from a literal.
LiteralKeys == ConfigKeys \ {"version", "release"}

\* The keys assigned after the two version-control reads.
LaterKeys == LiteralKeys \ {"project", "copyright", "author"}

VARIABLES
    pc,          \* index into Program of the next statement; Done after the last
    aborted,     \* the module body raised (ImportError) and the load stopped
    conf,        \* the module namespace: name -> value, for the names bound so far
    proc,        \* the two git processes of this load: "none", "running", "finished"
    out,         \* what each process wrote on its standard output
    calls,       \* the commands this load has started, in order
    seen,        \* the repository state each process read (<<>> before it ran)
    repo,        \* the host: tool installed, cwd a repository, HEAD, tags
    lexerLib,    \* pygments_lexer_solidity is installed
    lexers,      \* the generator's process-wide lexer table
    setupCalls,  \* calls of setup(sphinx) since this load
    loads,       \* the number of this load
    prevConf,    \* the namespace the previous load ended with
    prevSeen,    \* the repository states the previous load read
    tagChanges   \* tags created or deleted by other processes so far

vars == << pc, aborted, conf, proc, out, calls, seen, repo, lexerLib, lexers,
           setupCalls, loads, prevConf, prevSeen, tagChanges >>

\* A namespace with nothing bound.
EmptyNamespace == [n \in {} |-> TRUE]

Bind(ns, name, value) ==
    [n \in (DOMAIN ns) \cup {name} |-> IF n = name THEN value ELSE ns[n]]

\* ------------------------------------------------------- the literal values

\* Lines 28-30, 41-43, 46, 48, 53, 62, 70: the value each literal key is
\* assigned.
LiteralValueAccumulating(key) ==
    CASE key = "project" -> "Solang Solidity Compiler"
      [] key = "copyright" -> "2019 - 2023 Solang Maintainers"
      [] key = "author" -> "Sean Young <sean@mess.org>, Cyrill Leutwiler <bigcyrill@hotmail.com>, Lucas Steuernagel <lucas.tnagel@gmail.com>"
      [] key = "extensions" -> [i \in 1..loads |-> "sphinx_tabs.tabs"]
      [] key = "sphinx_tabs_disable_tab_closing" -> TRUE
      [] key = "templates_path" -> <<"_templates">>
      [] key = "exclude_patterns" -> <<>>
      [] key = "html_theme" -> "sphinx_rtd_theme"
      [] OTHER -> "index"

LiteralValueTabsClosable(key) ==
    CASE key = "project" -> "Solang Solidity Compiler"
      [] key = "copyright" -> "2019 - 2023 Solang Maintainers"
      [] key = "author" -> "Sean Young <sean@mess.org>, Cyrill Leutwiler <bigcyrill@hotmail.com>, Lucas Steuernagel <lucas.tnagel@gmail.com>"
      [] key = "extensions" -> <<"sphinx_tabs.tabs">>
      [] key = "sphinx_tabs_disable_tab_closing" -> FALSE
      [] key = "templates_path" -> <<"_templates">>
      [] key = "exclude_patterns" -> <<>>
      [] key = "html_theme" -> "sphinx_rtd_theme"
      [] OTHER -> "index"

LiteralValue(key) ==
    CASE key = "project" -> "Solang Solidity Compiler"
      [] key = "copyright" -> "2019 - 2023 Solang Maintainers"
      [] key = "author" -> "Sean Young <sean@mess.org>, Cyrill Leutwiler <bigcyrill@hotmail.com>, Lucas Steuernagel <lucas.tnagel@gmail.com>"
      [] key = "extensions" -> <<"sphinx_tabs.tabs">>
      [] key = "sphinx_tabs_disable_tab_closing" -> TRUE
      [] key = "templates_path" -> <<"_templates">>
      [] key = "exclude_patterns" -> <<>>
      [] key = "html_theme" -> "sphinx_rtd_theme"
      [] OTHER -> "index"

\* ------------------------------------------------- the version-control tool

\* The commits at or before HEAD that carry a tag.
ReachableTagged(r) == {c \in 1..r.head : r.tags[c] # NoTag}

HasTag(r) == \E c \in Commits : r.tags[c] # NoTag

Max(S) == CHOOSE x \in S : \A y \in S : y <= x

\* The tagged commit nearest to HEAD among its ancestors.
NearestTagged(r) == Max(ReachableTagged(r))

NearestTag(r) == r.tags[NearestTagged(r)]

\* `git describe --tags`: the tag itself when HEAD carries it, otherwise
\* <tag>-<commits since the tag>-g<abbreviated name of HEAD>.
Description(r) ==
    LET d == r.head - NearestTagged(r)
    IN  IF d = 0 THEN NearestTag(r)
        ELSE NearestTag(r) \o <<"-", Digit(d), "-", "g">> \o Hash(r.head)

\* The tool can answer: it is installed, the working directory is a
\* repository, and a tag is reachable from HEAD.
Describable(r) == r.tool /\ r.isRepo /\ ReachableTagged(r) # {}

CmdNearest == "git describe --tags --abbrev=0"
CmdVerbose == "git describe --tags"

\* What the shell command writes on its standard output, which is all that
\* os.popen captures: one line for a describable repository, nothing when the
\* shell finds no git or git fails (the messages go to standard error).
StdoutWithErrors(r, cmd) ==
    IF Describable(r)
    THEN (IF cmd = CmdNearest THEN NearestTag(r) ELSE Description(r)) \o <<NL>>
    ELSE <<"f", "a", "t", "a", "l", NL>>

Stdout(r, cmd) ==
    IF Describable(r)
    THEN (IF cmd = CmdNearest THEN NearestTag(r) ELSE Description(r)) \o <<NL>>
    ELSE <<>>

\* ------------------------------------------------------ readline and strip

\* file.readline(): the text up to and including the first newline, or all
\* of it when there is none ("" at end of file).
Readline(s) ==
    LET ends == {i \in 1..Len(s) : s[i] = NL}
    IN  IF ends = {} THEN s
        ELSE SubSeq(s, 1, CHOOSE i \in ends : \A j \in ends : i <= j)

StripNothing(s) == s

\* str.strip(): the text without its leading and trailing whitespace.
Strip(s) ==
    LET inked == {i \in 1..Len(s) : s[i] \notin Whitespace}
    IN  IF inked = {} THEN <<>>
        ELSE SubSeq(s, CHOOSE i \in inked : \A j \in inked : i <= j,
                       CHOOSE i \in inked : \A j \in inked : j <= i)

\* ------------------------------------------------------------ the lexers

SolidityLexer == "pygments_lexer_solidity.SolidityLexer"
YulLexer == "pygments_lexer_solidity.YulLexer"

\* sphinx.add_lexer(alias, lexer) on the lexer table.
add_lexer(table, alias, lexer) == Bind(table, alias, lexer)

\* The table before this configuration registers anything.
InitLexers == [a \in {"python"} |-> "pygments.lexers.PythonLexer"]

\* ------------------------------------------------------------ the state

\* The placeholder of `seen` for a process that has not run: no repository
\* state has HEAD at 0.
NotRun ==
    [tool |-> FALSE, isRepo |-> FALSE, head |-> 0, tags |-> [c \in Commits |-> NoTag]]

\* A tag names one commit.
TagAssignments ==
    {f \in [Commits -> TagNames \cup {NoTag}] :
        \A c, d \in Commits : (c # d /\ f[c] # NoTag) => f[c] # f[d]}

\* The hosts a build can run on.  Outside a repository there are no commits
\* to speak of.
Hosts ==
    {r \in [tool : BOOLEAN, isRepo : BOOLEAN, head : Commits, tags : TagAssignments] :
        ~r.isRepo => (r.head = 1 /\ ~HasTag(r))}

Init ==
    /\ pc = 1
    /\ aborted = FALSE
    /\ conf = EmptyNamespace
    /\ proc = [k \in 1..2 |-> "none"]
    /\ out = [k \in 1..2 |-> <<>>]
    /\ calls = <<>>
    /\ seen = [k \in 1..2 |-> NotRun]
    /\ repo \in Hosts
    /\ lexerLib \in BOOLEAN
    /\ lexers = InitLexers
    /\ setupCalls = 0
    /\ loads = 1
    /\ prevConf = EmptyNamespace
    /\ prevSeen = [k \in 1..2 |-> NotRun]
    /\ tagChanges = 0

\* The statement the interpreter is at.
Running == ~aborted /\ pc < Done
At(stmt) == Running /\ Program[pc] = stmt

host == << repo, lexerLib, tagChanges >>
history == << loads, prevConf, prevSeen >>
pipes == << proc, out, calls, seen >>

\* --------------------------------------------------- the module body, 18-70

\* Line 18: import os.
ImportOs ==
    /\ At("import_os")
    /\ conf' = Bind(conf, "os", "module os")
    /\ pc' = pc + 1
    /\ UNCHANGED << aborted, pipes, host, lexers, setupCalls, history >>

\* Line 20: from pygments_lexer_solidity import SolidityLexer, YulLexer.
\* Without the library the import raises and the module body stops there.
ImportLexers ==
    /\ At("import_lexers")
    /\ IF lexerLib
       THEN /\ conf' = Bind(Bind(conf, "SolidityLexer", SolidityLexer),
                            "YulLexer", YulLexer)
            /\ pc' = pc + 1
            /\ UNCHANGED aborted
       ELSE /\ aborted' = TRUE
            /\ UNCHANGED << conf, pc >>
    /\ UNCHANGED << pipes, host, lexers, setupCalls, history >>

\* Lines 22-24, the def statement: binds the name setup; the body does not run.
DefSetup ==
    /\ At("def_setup")
    /\ conf' = Bind(conf, "setup", "function setup")
    /\ pc' = pc + 1
    /\ UNCHANGED << aborted, pipes, host, lexers, setupCalls, history >>

\* Lines 28-30, 41-70: an assignment of a literal.
AssignLiteral ==
    /\ Running
    /\ Program[pc] \in LiteralKeys
    /\ conf' = Bind(conf, Program[pc], LiteralValue(Program[pc]))
    /\ pc' = pc + 1
    /\ UNCHANGED << aborted, pipes, host, lexers, setupCalls, history >>

\* The process and the command of each of the two version-control statements.
Cmd(k) == IF k = 1 THEN CmdNearest ELSE CmdVerbose
PopenStmt(k) == IF k = 1 THEN "version_popen" ELSE "release_popen"
ReadStmt(k) == IF k = 1 THEN "version_read" ELSE "release_read"
Key(k) == IF k = 1 THEN "version" ELSE "release"

\* Lines 33 and 34, os.popen(cmd): the shell is started and the call returns
\* a pipe to its standard output.
Popen(k) ==
    /\ At(PopenStmt(k))
    /\ "os" \in DOMAIN conf
    /\ proc' = [proc EXCEPT ![k] = "running"]
    /\ calls' = Append(calls, Cmd(k))
    /\ pc' = pc + 1
    /\ UNCHANGED << aborted, conf, out, seen, host, lexers, setupCalls, history >>

\* The started process runs: it reads the repository as it then is, writes
\* its answer and exits.  Nothing obliges it to (a git that hangs never
\* takes this step).
GitRuns(k) ==
    /\ proc[k] = "running"
    /\ out' = [out EXCEPT ![k] = Stdout(repo, Cmd(k))]
    /\ seen' = [seen EXCEPT ![k] = repo]
    /\ proc' = [proc EXCEPT ![k] = "finished"]
    /\ UNCHANGED << pc, aborted, conf, calls, host, lexers, setupCalls, history >>

\* readline() returns once the pipe holds a line or is at end of file.
CanReadWithoutBlocking(k) == proc[k] # "none"

CanRead(k) == proc[k] = "finished"

\* Lines 33 and 34, .readline().strip() and the assignment.
ReadAndAssign(k) ==
    /\ At(ReadStmt(k))
    /\ CanRead(k)
    /\ conf' = Bind(conf, Key(k), Strip(Readline(out[k])))
    /\ pc' = pc + 1
    /\ UNCHANGED << aborted, pipes, host, lexers, setupCalls, history >>

\* The interpreter executing the module body.
Interpreter ==
    \/ ImportOs
    \/ ImportLexers
    \/ DefSetup
    \/ AssignLiteral
    \/ \E k \in 1..2 : Popen(k)
    \/ \E k \in 1..2 : ReadAndAssign(k)

\* ------------------------------------------------------- the hook, 22-24

\* The two registrations of the body of setup.
RegisterSolidityTwice(table, ns) ==
    add_lexer(add_lexer(table, "Solidity", ns["SolidityLexer"]),
              "Solidity", ns["YulLexer"])

Register(table, ns) ==
    add_lexer(add_lexer(table, "Solidity", ns["SolidityLexer"]),
              "Yul", ns["YulLexer"])

\* The generator calls the hook of a loaded configuration.
setupRebindingConfig ==
    /\ ~aborted
    /\ pc = Done
    /\ "setup" \in DOMAIN conf
    /\ setupCalls < MaxSetupCalls
    /\ lexers' = Register(lexers, conf)
    /\ conf' = Bind(conf, "extensions", <<>>)
    /\ setupCalls' = setupCalls + 1
    /\ UNCHANGED << pc, aborted, pipes, host, history >>

setup ==
    /\ ~aborted
    /\ pc = Done
    /\ "setup" \in DOMAIN conf
    /\ setupCalls < MaxSetupCalls
    /\ lexers' = Register(lexers, conf)
    /\ setupCalls' = setupCalls + 1
    /\ UNCHANGED << pc, aborted, conf, pipes, host, history >>

\* ------------------------------------------------------- the environment

\* The next build invocation executes the module body again, in a fresh
\* namespace; the lexer table is the process's and stays.
Reload ==
    /\ aborted \/ (pc = Done /\ setupCalls >= 1)
    /\ loads < MaxLoads
    /\ prevConf' = conf
    /\ prevSeen' = seen
    /\ loads' = loads + 1
    /\ conf' = EmptyNamespace
    /\ pc' = 1
    /\ aborted' = FALSE
    /\ proc' = [k \in 1..2 |-> "none"]
    /\ out' = [k \in 1..2 |-> <<>>]
    /\ calls' = <<>>
    /\ seen' = [k \in 1..2 |-> NotRun]
    /\ setupCalls' = 0
    /\ UNCHANGED << host, lexers >>

\* Another process tags a commit of the repository.
TagCreated(c, t) ==
    /\ tagChanges < MaxTagChanges
    /\ repo.isRepo
    /\ repo.tags[c] = NoTag
    /\ \A d \in Commits : repo.tags[d] # t
    /\ repo' = [repo EXCEPT !.tags[c] = t]
    /\ tagChanges' = tagChanges + 1
    /\ UNCHANGED << pc, aborted, conf, pipes, lexerLib, lexers, setupCalls, history >>

\* Another process deletes a tag.
TagDeleted(c) ==
    /\ tagChanges < MaxTagChanges
    /\ repo.isRepo
    /\ repo.tags[c] # NoTag
    /\ repo' = [repo EXCEPT !.tags[c] = NoTag]
    /\ tagChanges' = tagChanges + 1
    /\ UNCHANGED << pc, aborted, conf, pipes, lexerLib, lexers, setupCalls, history >>

Next ==
    \/ Interpreter
    \/ \E k \in 1..2 : GitRuns(k)
    \/ setup
    \/ Reload
    \/ \E c \in Commits, t \in TagNames : TagCreated(c, t)
    \/ \E c \in Commits : TagDeleted(c)

Spec == Init /\ [][Next]_vars

\* The interpreter keeps executing while it can, and the generator calls the
\* hook of a configuration it has loaded; the git processes and the other
\* users of the repository owe nothing.
FairSpec ==
    Spec /\ WF_vars(Interpreter) /\ WF_vars(setupCalls = 0 /\ setup)

\* ================================================================ claims

\* The module body ran to its end.
Loaded == ~aborted /\ pc = Done

IsPrefix(a, b) == Len(a) <= Len(b) /\ SubSeq(b, 1, Len(a)) = a

NoSurroundingWhitespace(s) ==
    s = <<>> \/ (s[1] \notin Whitespace /\ s[Len(s)] \notin Whitespace)

\* The tags of a repository state.
TagsOf(r) == {r.tags[c] : c \in Commits} \ {NoTag}

\* C1 as stated: in every repository with at least one tag and a working
\* tool, version is the name of the nearest of the repository's tags and
\* release is its full description.
C1_EveryTaggedRepository ==
    /\ ("version" \in DOMAIN conf /\ seen[1].tool /\ seen[1].isRepo /\ HasTag(seen[1]))
          => /\ conf["version"] \in TagsOf(seen[1])
             /\ Describable(seen[1]) => conf["version"] = NearestTag(seen[1])
    /\ ("release" \in DOMAIN conf /\ seen[2].tool /\ seen[2].isRepo /\ HasTag(seen[2]))
          => /\ \E t \in TagsOf(seen[2]) : IsPrefix(t, conf["release"])
             /\ Describable(seen[2]) => conf["release"] = Description(seen[2])

\* C1, amended: when the tool is installed, the working directory is a
\* repository and a tag is reachable from HEAD, version is the name of the
\* nearest reachable tag and release is the tool's full description, each as
\* the tool printed it, without the newline and without whitespace at either
\* end.
C1_VersionIsNearestReachableTag ==
    /\ ("version" \in DOMAIN conf /\ Describable(seen[1]))
          => /\ conf["version"] = NearestTag(seen[1])
             /\ NoSurroundingWhitespace(conf["version"])
    /\ ("release" \in DOMAIN conf /\ Describable(seen[2]))
          => /\ conf["release"] = Description(seen[2])
             /\ NoSurroundingWhitespace(conf["release"])

\* A load that read v1 one commit behind HEAD.
C1_Witness ==
    /\ Loaded
    /\ Describable(seen[1]) /\ Describable(seen[2])
    /\ conf["version"] = V1
    /\ conf["release"] = <<"v", "1", "-", "1", "-", "g", "c", "2">>

\* C2: when the process found no tool, no repository or no tag, the key it
\* feeds is the empty string, and the failure never aborts the load (the
\* only abort is the missing lexer library).
C2_EmptyWhenUndescribable ==
    /\ \A k \in 1..2 :
          (Key(k) \in DOMAIN conf
             /\ (~seen[k].tool \/ ~seen[k].isRepo \/ ~HasTag(seen[k])))
          => conf[Key(k)] = <<>>
    /\ aborted => ~lexerLib
    /\ \A k \in 1..2 :
          (At(ReadStmt(k)) /\ proc[k] = "finished") => ENABLED ReadAndAssign(k)

\* A completed load on a host without the tool, in a repository with a tag.
C2_Witness ==
    /\ Loaded
    /\ ~seen[1].tool /\ ~seen[2].tool
    /\ HasTag(seen[1])
    /\ conf["version"] = <<>> /\ conf["release"] = <<>>

LexersRegistered ==
    /\ {"Solidity", "Yul"} \subseteq DOMAIN lexers
    /\ lexers["Solidity"] = SolidityLexer
    /\ lexers["Yul"] = YulLexer

\* C3: once the generator has loaded the configuration it calls the hook,
\* and from the first call on the lexer table maps "Solidity" to the
\* Solidity lexer and "Yul" to the Yul lexer.
C3_LexersRegistered ==
    /\ Loaded ~> LexersRegistered
    /\ [](setupCalls >= 1 => LexersRegistered)
    /\ [][LexersRegistered => LexersRegistered']_vars

C3_Witness == Loaded /\ setupCalls = 1 /\ LexersRegistered

\* C4: two loads whose git processes read the same repository states bind
\* every configuration key to the same value.
C4_Idempotent ==
    (loads >= 2 /\ Loaded /\ seen = prevSeen)
       => /\ ConfigKeys \subseteq DOMAIN conf
          /\ ConfigKeys \subseteq DOMAIN prevConf
          /\ \A key \in ConfigKeys : conf[key] = prevConf[key]

\* A second completed load that read the same describable repository.
C4_Witness ==
    /\ loads = 2 /\ Loaded /\ seen = prevSeen
    /\ Describable(seen[1]) /\ Describable(seen[2])
    /\ conf["release"] # conf["version"]

\* C5: within one build invocation a bound name is never rebound, nothing
\* changes the namespace after the load, and a call of setup changes the
\* lexer table and nothing else of the configuration or its load.
C5_ReadOnlyAfterLoad ==
    [][ /\ loads' = loads =>
             \A n \in DOMAIN conf : n \in DOMAIN conf' /\ conf'[n] = conf[n]
        /\ (Loaded /\ loads' = loads) => (Loaded' /\ conf' = conf)
        /\ setupCalls' = setupCalls + 1 =>
             UNCHANGED << pc, aborted, conf, pipes, host, history >>
      ]_vars

C5_Witness == Loaded /\ setupCalls = 2 /\ LexersRegistered /\ loads = 1

\* C6 as stated: in a completed load with both strings non-empty, release
\* describes the tag version names.
C6_SameTagHistory ==
    (Loaded /\ conf["version"] # <<>> /\ conf["release"] # <<>>)
       => IsPrefix(conf["version"], conf["release"])

\* C7: the extension list is exactly <<'sphinx_tabs.tabs'>> and the flag
\* that disables tab closing is true, from their assignment on, and both are
\* bound in a loaded configuration.
C7_ExtensionsAndFlag ==
    /\ "extensions" \in DOMAIN conf
          => (Len(conf["extensions"]) = 1 /\ conf["extensions"][1] = "sphinx_tabs.tabs")
    /\ "sphinx_tabs_disable_tab_closing" \in DOMAIN conf
          => conf["sphinx_tabs_disable_tab_closing"] = TRUE
    /\ Loaded => {"extensions", "sphinx_tabs_disable_tab_closing"} \subseteq DOMAIN conf

C7_Witness ==
    /\ Loaded /\ loads = 2 /\ setupCalls = 1
    /\ conf["extensions"] = <<"sphinx_tabs.tabs">>

\* C8: without the lexer library the load aborts at the import: no git
\* process is started, no configuration key and no hook is bound, the hook
\* is never called and the lexer table stays as it was.
C8_ImportFailureAbortsFirst ==
    /\ aborted => (~lexerLib /\ Program[pc] = "import_lexers")
    /\ ~lexerLib =>
          /\ calls = <<>>
          /\ \A k \in 1..2 : proc[k] = "none"
          /\ DOMAIN conf \cap (ConfigKeys \cup {"setup"}) = {}
          /\ setupCalls = 0
          /\ lexers = InitLexers
          /\ ~Loaded

\* The second build invocation aborted at the import as well.
C8_Witness == aborted /\ ~lexerLib /\ loads = 2 /\ DOMAIN conf = {"os"}

\* C9: a load starts git exactly twice, the nearest-tag request and then the
\* verbose one; the second is not started before version is assigned from
\* the first line of the first, and no later key is assigned before both
\* have been read.
C9_TwoSequentialInvocations ==
    /\ calls \in {<<>>, <<CmdNearest>>, <<CmdNearest, CmdVerbose>>}
    /\ Loaded => calls = <<CmdNearest, CmdVerbose>>
    /\ proc[2] # "none" => (proc[1] = "finished" /\ "version" \in DOMAIN conf)
    /\ "version" \in DOMAIN conf
          => (proc[1] = "finished" /\ conf["version"] = Strip(Readline(out[1])))
    /\ "release" \in DOMAIN conf
          => (proc[2] = "finished" /\ conf["release"] = Strip(Readline(out[2])))
    /\ \A key \in LaterKeys :
          key \in DOMAIN conf => {"version", "release"} \subseteq DOMAIN conf

\* The second process is running, the first has been read.
C9_Witness ==
    /\ calls = <<CmdNearest, CmdVerbose>>
    /\ proc[1] = "finished" /\ proc[2] = "running"
    /\ conf["version"] = V2

\* The load waits in the read of process k: nothing after it is assigned.
BlockedOn(k) ==
    /\ At(ReadStmt(k))
    /\ Key(k) \notin DOMAIN conf
    /\ DOMAIN conf \cap ({"release"} \cup LaterKeys) = {}

\* C10: a load whose git processes each write or exit (no process stays
\* running for ever) completes with every key bound; while a started
\* process has done neither, the load waits in its read, so a process that
\* never does leaves the load there for ever.
C10_BlocksWithoutTimeout ==
    /\ ([]<>(proc[1] # "running") /\ []<>(proc[2] # "running"))
          => []((lexerLib /\ ~Loaded) => <>Loaded)
    /\ [](Loaded => ConfigKeys \subseteq DOMAIN conf)
    /\ [](proc[1] = "running" => BlockedOn(1))
    /\ [](proc[2] = "running" => BlockedOn(2))
    /\ (<>[](proc[1] = "running") \/ <>[](proc[2] = "running")) => <>[](~Loaded)

\* The load waits for the second process, version already assigned.
C10_Witness ==
    /\ proc[2] = "running" /\ BlockedOn(2)
    /\ "version" \in DOMAIN conf
    /\ loads = 2

====
